---- MODULE Spec2Model ----
(***************************************************************************)
(* A model of pysb/tools/export_python.py.                                 *)
(*                                                                         *)
(* Three state machines are described.                                     *)
(*                                                                         *)
(*   SpecRun  run(model): the text pipeline that builds code_eqs, rewrites *)
(*            species markers and parameter names, and embeds the result   *)
(*            in the two ode_rhs bodies.  Text is a sequence of one-       *)
(*            character strings, so the regular expressions are modelled   *)
(*            by what they match, character by character.                  *)
(*                                                                         *)
(*   Spec     one instance of the generated class Model: a sequence of     *)
(*            simulate calls, accepted or rejected, each one the loop of   *)
(*            lines 260-262 step by step.  Arrays are handles onto buffers *)
(*            in a heap, so that views and reallocation are visible.       *)
(*                                                                         *)
(*   SpecCaller  the same instance with a caller that keeps the arrays a   *)
(*            call returned and assigns to them, over shorter tspans.      *)
(***************************************************************************)
EXTENDS Integers, Sequences, FiniteSets, TLC

VARIABLES
    \* ---- run() ----
    rpc,          \* position in run(): "start", "joined", "params", "done"
    params,       \* model.parameters: the sequence of parameter names
    odes,         \* model.odes: one expression (a sequence of symbols) per species
    code_eqs,     \* the local code_eqs
    pidx,         \* the loop variable i of line 145 (1-based here)
    native_eqs,   \* the text substituted for %s in the scipy.weave.inline body
    interp_eqs,   \* the text substituted for %s in the interpreted body
    \* ---- the generated Model instance ----
    model,            \* the tables baked into __init__ (lines 188-212)
    y,                \* self.y: a handle, or None
    yobs,             \* self.yobs
    yobs_view,        \* self.yobs_view
    y0,               \* self.y0
    sim_param_values, \* self.sim_param_values
    integrator,       \* self.integrator: its time and its success flag
    heap,             \* the contents of the array buffers that are alive
    \* ---- one simulate call ----
    pc,               \* "idle", or "loop" from line 259 until the loop is left
    args,             \* tspan, param_values and view of the call in progress
    t,                \* the local t of lines 259-262
    \* ---- the caller ----
    held,             \* the pair of arrays the caller keeps from an earlier call
    lastOutcome,      \* the latest call: "none", "running", "returned", "rejected"
    \* ---- history, read by the properties only ----
    steps,            \* what each integrate() of the call in progress returned
    allocated,        \* whether the call in progress ran lines 246-254
    prevLen,          \* len(tspan) of the latest call, rejected or not
    accLen            \* len(tspan) of the latest call that was not rejected

runVars == <<rpc, params, odes, code_eqs, pidx, native_eqs, interp_eqs>>
selfVars == <<y, yobs, yobs_view, y0, sim_param_values, integrator, heap>>
callVars == <<pc, args, t>>
callerVars == <<held, lastOutcome>>
histVars == <<steps, allocated, prevLen, accLen>>
simVars == <<model, selfVars, callVars, callerVars, histVars>>
vars == <<runVars, simVars>>

----------------------------------------------------------------------------
(* Bounds *)

\* The total number of symbols in the ODE right-hand sides of one model.
MaxSymbols == 3
\* The number of ODEs (species with an equation) of one model.
MaxOdes == 2
\* The longest tspan passed to simulate.
MaxLen == 3

----------------------------------------------------------------------------
(* Text *)

DigitChars == {"0", "1", "2", "3", "4", "5", "6", "7", "8", "9"}
LetterChars ==
    {"a", "b", "c", "d", "e", "f", "g", "h", "i", "j", "k", "l", "m",
     "n", "o", "p", "q", "r", "s", "t", "u", "v", "w", "x", "y", "z"}
\* \w of the re module
WordChars == DigitChars \cup LetterChars \cup {"_"}
SpaceChars == {" ", "\n", "\t"}

DigitOf(n) == CASE n = 0 -> "0" [] n = 1 -> "1" [] n = 2 -> "2" [] n = 3 -> "3"
                [] n = 4 -> "4" [] n = 5 -> "5" [] n = 6 -> "6" [] n = 7 -> "7"
                [] n = 8 -> "8" [] n = 9 -> "9"
ValueOf(c) == CHOOSE n \in 0..9 : DigitOf(n) = c

\* '%d' % n for n >= 0
RECURSIVE FmtInt(_)
FmtInt(n) == IF n < 10 THEN <<DigitOf(n)>>
             ELSE FmtInt(n \div 10) \o <<DigitOf(n % 10)>>

\* int(digits)
RECURSIVE ParseInt(_)
ParseInt(ds) == IF Len(ds) = 0 THEN 0
                ELSE 10 * ParseInt(SubSeq(ds, 1, Len(ds) - 1)) + ValueOf(ds[Len(ds)])

Spaces(n) == [i \in 1..n |-> " "]

RECURSIVE Join(_, _)
\* sep.join(parts)
Join(parts, sep) ==
    IF Len(parts) = 0 THEN <<>>
    ELSE IF Len(parts) = 1 THEN parts[1]
    ELSE parts[1] \o sep \o Join(Tail(parts), sep)

\* the k-th smallest element of a set of indices
Nth(S, k) == CHOOSE p \in S : Cardinality({q \in S : q < p}) = k - 1

\* text.split('\n')
SplitLines(text) ==
    LET nl == {i \in 1..Len(text) : text[i] = "\n"}
        n == Cardinality(nl) + 1
    IN  [k \in 1..n |->
            SubSeq(text, IF k = 1 THEN 1 ELSE Nth(nl, k - 1) + 1,
                         IF k = n THEN Len(text) ELSE Nth(nl, k) - 1)]

----------------------------------------------------------------------------
(* run(): building code_eqs *)

\* The names of the parameters of the models explored.
k1 == <<"k", "1">>
k10 == <<"k", "1", "0">>
k1a == <<"k", "1", "a">>
ks1 == <<"k", "s", "1">>
pName == <<"p">>
ParamLists == { <<k1, k10, k1a>>, <<k10, k1>>, <<ks1, k1>>, <<k1, pName>> }

\* The species indices the ODEs may mention.
SpeciesIdx == {0, 1, 12}

\* The symbols an ODE of a model with parameters ps may mention.
Symbols(ps) ==
    [kind : {"species"}, idx : SpeciesIdx, name : {<<>>}]
    \cup { [kind |-> "param", idx |-> i, name |-> ps[i]] : i \in 1..Len(ps) }

\* sympy.ccode of one symbol: a species is printed s<index>, a parameter by name
CCodeSymbol(sym) ==
    IF sym.kind = "species" THEN <<"s">> \o FmtInt(sym.idx) ELSE sym.name

\* sympy.ccode of a product of symbols
CCode(expr) == Join([i \in 1..Len(expr) |-> CCodeSymbol(expr[i])], <<"*">>)

\* 'ydot[%d] = %s;' % (i, ...), i counted from 0
OdeLine(i, expr) ==
    <<"y", "d", "o", "t", "[">> \o FmtInt(i) \o <<"]", " ", "=", " ">>
      \o CCode(expr) \o <<";">>

\* lines 141-142
BuildCodeEqs(os) == Join([i \in 1..Len(os) |-> OdeLine(i - 1, os[i])], <<"\n">>)

----------------------------------------------------------------------------
(* run(): the two substitution passes, lines 143-146 *)

RECURSIVE DigitRunEnd(_, _)
\* the last index of the maximal run of digits that starts at index i
DigitRunEnd(text, i) ==
    IF i < Len(text) /\ text[i + 1] \in DigitChars
    THEN DigitRunEnd(text, i + 1) ELSE i

RECURSIVE SubSpeciesFrom(_, _)
SubSpeciesFrom(text, i) ==
    IF i > Len(text) THEN <<>>
    ELSE IF text[i] = "s" /\ i < Len(text) /\ text[i + 1] \in DigitChars
    THEN LET j == DigitRunEnd(text, i + 1)
         IN  <<"y", "[">> \o FmtInt(ParseInt(SubSeq(text, i + 1, j))) \o <<"]">>
               \o SubSpeciesFrom(text, j + 1)
    ELSE <<text[i]>> \o SubSpeciesFrom(text, i + 1)

\* re.sub(r's(\d+)', lambda m: 'y[%s]' % (int(m.group(1))), text)
SubSpecies(text) == SubSpeciesFrom(text, 1)

\* \b at the gap before index i of text
WordBoundary(text, i) ==
    LET before == i > 1 /\ text[i - 1] \in WordChars
        after  == i <= Len(text) /\ text[i] \in WordChars
    IN  before # after

\* whether r'\b(name)\b' matches text at index i
WordAt(text, name, i) ==
    /\ i + Len(name) - 1 <= Len(text)
    /\ SubSeq(text, i, i + Len(name) - 1) = name
    /\ WordBoundary(text, i)
    /\ WordBoundary(text, i + Len(name))

RECURSIVE SubWordFrom(_, _, _, _)
SubWordFrom(text, name, repl, i) ==
    IF i > Len(text) THEN <<>>
    ELSE IF WordAt(text, name, i)
    THEN repl \o SubWordFrom(text, name, repl, i + Len(name))
    ELSE <<text[i]>> \o SubWordFrom(text, name, repl, i + 1)

\* re.sub(r'\b(%s)\b' % name, 'p[%d]' % i, text), i counted from 0
SubParam(text, name, i) ==
    SubWordFrom(text, name, <<"p", "[">> \o FmtInt(i) \o <<"]">>, 1)

----------------------------------------------------------------------------
(* run(): pad and the two ode_rhs bodies, lines 111-116 and 215-228 *)

IsBlank(line) == \A i \in 1..Len(line) : line[i] \in {" ", "\t"}

RECURSIVE LeadingSpaceEnd(_, _)
LeadingSpaceEnd(line, i) ==
    IF i < Len(line) /\ line[i + 1] \in {" ", "\t"}
    THEN LeadingSpaceEnd(line, i + 1) ELSE i
\* the leading whitespace of a line
LeadingSpace(line) == SubSeq(line, 1, LeadingSpaceEnd(line, 0))

RECURSIVE CommonPrefixEnd(_, _, _)
CommonPrefixEnd(a, b, i) ==
    IF i < Len(a) /\ i < Len(b) /\ a[i + 1] = b[i + 1]
    THEN CommonPrefixEnd(a, b, i + 1) ELSE i
CommonPrefix(a, b) == SubSeq(a, 1, CommonPrefixEnd(a, b, 0))

RECURSIVE Margin(_, _, _)
\* the whitespace every non-blank line of lines[i..] starts with, given m so far
\* (m = <<"none">> while no non-blank line has been seen)
Margin(lines, i, m) ==
    IF i > Len(lines) THEN (IF m = <<"none">> THEN <<>> ELSE m)
    ELSE IF IsBlank(lines[i]) THEN Margin(lines, i + 1, m)
    ELSE LET ls == LeadingSpace(lines[i])
         IN  Margin(lines, i + 1, IF m = <<"none">> THEN ls ELSE CommonPrefix(m, ls))

\* textwrap.dedent, on the lines of the text
Dedent(lines) ==
    LET m == Margin(lines, 1, <<"none">>)
    IN  [i \in 1..Len(lines) |->
            IF IsBlank(lines[i]) THEN <<>>
            ELSE SubSeq(lines[i], Len(m) + 1, Len(lines[i]))]

\* pad(text, depth), lines 111-116
Pad(text, depth) ==
    LET lines == Dedent(SplitLines(text))
        padded == [i \in 1..Len(lines) |-> Spaces(depth) \o lines[i]]
    IN  Join(padded, <<"\n">>) \o <<"\n">>

\* text with the characters at the indices in gone deleted
Without(text, gone) ==
    LET before(g) == g - Cardinality({h \in gone : h < g})
    IN  [j \in 1..(Len(text) - Cardinality(gone)) |->
            text[j + Cardinality({g \in gone : before(g) <= j})]]

\* text.replace(c, '', 1): a replace that stops after the first occurrence
RemoveFirst(text, c) ==
    LET at == {i \in 1..Len(text) : text[i] = c}
    IN  Without(text, IF at = {} THEN {} ELSE {Nth(at, 1)})

\* text.replace(c, '')
Remove(text, c) == Without(text, {i \in 1..Len(text) : text[i] = c})

RECURSIVE FirstNonSpace(_, _)
\* the index of the first character from index i on that is not whitespace
FirstNonSpace(text, i) ==
    IF i <= Len(text) /\ text[i] \in SpaceChars
    THEN FirstNonSpace(text, i + 1) ELSE i
RECURSIVE LastNonSpace(_, _)
\* the index of the last character up to index i that is not whitespace
LastNonSpace(text, i) ==
    IF i >= 1 /\ text[i] \in SpaceChars THEN LastNonSpace(text, i - 1) ELSE i
\* text.lstrip()
LStrip(text) == SubSeq(text, FirstNonSpace(text, 1), Len(text))
\* text.rstrip()
RStrip(text) == SubSeq(text, 1, LastNonSpace(text, Len(text)))
\* text.strip()
Strip(text) == RStrip(LStrip(text))

\* line 221: the argument of the scipy.weave.inline template
NativeEqs(eqs) == Pad(<<"\n">> \o eqs, 16) \o Spaces(16)

\* line 228: the argument of the interpreted template
InterpEqs(eqs) == Strip(Remove(Pad(<<"\n">> \o eqs, 12), ";"))

----------------------------------------------------------------------------
(* The generated class Model: its tables, lines 168-212 *)

\* The namedtuples of lines 168-170, built positionally as the emitted text does.
Parameter(name, value) == [name |-> name, value |-> value]
Observable(name, species, coefficients) ==
    [name |-> name, species |-> species, coefficients |-> coefficients]
Initial(param_index, species_index) ==
    [param_index |-> param_index, species_index |-> species_index]

\* line 211-212: "self.initial_conditions[%d] = Initial(%d, %d)" % ic_data, where
\* ic_data is (i, model.parameters.index(param), model.get_species_index(cp))
EmitInitial(ic) == Initial(ic.param, ic.species)

\* The PySB models explored: species and parameters are numbered from 0 as in
\* the source, parameter values are the values as printed by line 198, and an
\* initial condition pairs a species with a parameter.  No two initial
\* conditions of a model are for the same species.
SourceModels ==
    { [num_species |-> 2,
       parameters |-> <<Parameter("k0", 1), Parameter("k1", 0)>>,
       observables |-> <<Observable("AB", <<0, 1>>, <<2, 3>>)>>,
       initial_conditions |-> <<[species |-> 1, param |-> 0]>>],
      [num_species |-> 2,
       parameters |-> <<Parameter("k0", 1), Parameter("k1", 0)>>,
       observables |-> <<>>,
       initial_conditions |-> <<[species |-> 1, param |-> 1],
                                [species |-> 0, param |-> 0]>>] }

\* lines 175-212: what __init__ of the generated class holds for a model
Generated(m) ==
    [num_species |-> m.num_species,
     parameters |-> m.parameters,
     observables |-> m.observables,
     initial_conditions |->
        [i \in 1..Len(m.initial_conditions) |-> EmitInitial(m.initial_conditions[i])],
     source |-> m]

----------------------------------------------------------------------------
(* Arrays *)

\* The values an array cell, a parameter or an integrator result may take.
Values == {0, 1}
\* The timepoints a tspan is made of.
Times == {0, 1, 2}

\* The content of a cell of numpy.empty / numpy.ndarray memory that was never
\* written.  It becomes an arbitrary value when it is first read (line 265 or
\* the return of the arrays), see Materialise.
Uninit == -1

\* None, as the value of self.y and self.yobs
NoneRef == [buf |-> 0, writeable |-> FALSE]

\* numpy.empty((rows, cols))
EmptyArray(rows, cols) == [r \in 1..rows |-> [c \in 1..cols |-> Uninit]]

UninitCells(a) ==
    {<<r, c>> \in (DOMAIN a) \X (IF Len(a) = 0 THEN {} ELSE DOMAIN a[1]) :
        a[r][c] = Uninit}

\* array a with its never-written cells read as the values g gives them
Materialise(a, g) ==
    [r \in DOMAIN a |-> [c \in DOMAIN a[r] |->
        IF a[r][c] = Uninit THEN g[<<r, c>>] ELSE a[r][c]]]

----------------------------------------------------------------------------
(* simulate, lines 232-274 *)

Nominal(m) == [i \in 1..Len(m.parameters) |-> m.parameters[i].value]

\* lines 233-241 without the else branch of lines 240-241: the vector of the
\* call before stays when param_values is None
SetParamValuesSticky(m, spv, pv) ==
    IF pv.given
    THEN IF Len(pv.values) # Len(m.parameters)
         THEN [raised |-> TRUE, spv |-> spv]
         ELSE [raised |-> FALSE, spv |-> pv.values]
    ELSE [raised |-> FALSE, spv |-> spv]

\* lines 233-241; pv.given is "param_values is not None"
SetParamValues(m, spv, pv) ==
    IF pv.given
    THEN IF Len(pv.values) # Len(m.parameters)
         THEN [raised |-> TRUE, spv |-> spv]
         ELSE [raised |-> FALSE, spv |-> pv.values]
    ELSE [raised |-> FALSE, spv |-> Nominal(m)]

RECURSIVE ApplyInitials(_, _, _, _)
\* lines 243-244, from the i-th initial condition on
ApplyInitials(ics, i, spv, state) ==
    IF i > Len(ics) THEN state
    ELSE ApplyInitials(ics, i + 1, spv,
            [state EXCEPT ![ics[i].species_index + 1] = spv[ics[i].param_index + 1]])

\* lines 242-244
InitialState(m, spv) ==
    ApplyInitials(m.initial_conditions, 1, spv, [s \in 1..m.num_species |-> 0])

\* lines 233-244 with the zero fill of line 242 moved before the length check
AssembleInitialFillFirst(m, spv, state, pv) ==
    LET r == SetParamValues(m, spv, pv)
    IN  IF r.raised
        THEN [raised |-> TRUE, spv |-> spv, y0 |-> [i \in DOMAIN state |-> 0]]
        ELSE [raised |-> FALSE, spv |-> r.spv, y0 |-> InitialState(m, r.spv)]

\* lines 233-244: the parameter vector and the initial state of a call, or the
\* exception of line 236
AssembleInitial(m, spv, state, pv) ==
    LET r == SetParamValues(m, spv, pv)
    IN  IF r.raised
        THEN [raised |-> TRUE, spv |-> spv, y0 |-> state]
        ELSE [raised |-> FALSE, spv |-> r.spv, y0 |-> InitialState(m, r.spv)]

\* line 245 with a condition that always holds
NeedsAllocAlways(yh, h, ts) == TRUE

\* line 245
NeedsAlloc(yh, h, ts) == yh = NoneRef \/ Len(ts) # Len(h[yh.buf])

\* lines 246-254: fresh buffers of identities ids[1] and ids[2]; yobs_view is
\* a view of yobs
AllocBuffers(m, ts, ids) ==
    [y |-> [buf |-> ids[1], writeable |-> TRUE],
     yobs |-> [buf |-> ids[2], writeable |-> TRUE],
     yobs_view |-> [buf |-> ids[2], writeable |-> TRUE],
     fresh |-> (ids[1] :> EmptyArray(Len(ts), m.num_species))
                 @@ (ids[2] :> EmptyArray(Len(ts), Len(m.observables)))]

\* line 260 without the test of successful()
LoopCondIgnoringSuccess(integ, ts) == integ.t < ts[Len(ts)]

\* line 260
LoopCond(integ, ts) == integ.success /\ integ.t < ts[Len(ts)]

RECURSIVE WeightedSum(_, _, _, _)
\* (row[species] * coefficients).sum(), from the j-th species on
WeightedSum(row, species, coefficients, j) ==
    IF j > Len(species) THEN 0
    ELSE row[species[j] + 1] * coefficients[j]
           + WeightedSum(row, species, coefficients, j + 1)

\* lines 263-265 without the coefficients
DeriveObservablesUnweighted(m, ya, yobsa) ==
    [r \in DOMAIN yobsa |-> [i \in DOMAIN yobsa[r] |->
        WeightedSum(ya[r], m.observables[i].species,
                    [j \in DOMAIN m.observables[i].species |-> 1], 1)]]

\* lines 263-265: the content of yobs_view after the loop over the observables
DeriveObservables(m, ya, yobsa) ==
    [r \in DOMAIN yobsa |-> [i \in DOMAIN yobsa[r] |->
        WeightedSum(ya[r], m.observables[i].species,
                    m.observables[i].coefficients, 1)]]

\* lines 266-274 without lines 269 and 271: the views stay writeable
ReturnArraysWriteable(yh, yobsh, h, view, ids) ==
    IF view
    THEN [y_out |-> [buf |-> yh.buf, writeable |-> TRUE],
          yobs_out |-> [buf |-> yobsh.buf, writeable |-> TRUE],
          y |-> yh, yobs |-> yobsh, fresh |-> [i \in {} |-> <<>>]]
    ELSE [y_out |-> [buf |-> ids[1], writeable |-> TRUE],
          yobs_out |-> [buf |-> ids[2], writeable |-> TRUE],
          y |-> yh, yobs |-> yobsh,
          fresh |-> (ids[1] :> h[yh.buf]) @@ (ids[2] :> h[yobsh.buf])]

\* lines 266-274: the arrays handed back, the handles the instance keeps, and
\* the buffers the copies need (identities ids[1] and ids[2])
ReturnArrays(yh, yobsh, h, view, ids) ==
    IF view
    THEN [y_out |-> [buf |-> yh.buf, writeable |-> FALSE],
          yobs_out |-> [buf |-> yobsh.buf, writeable |-> FALSE],
          y |-> yh, yobs |-> yobsh, fresh |-> [i \in {} |-> <<>>]]
    ELSE [y_out |-> [buf |-> ids[1], writeable |-> TRUE],
          yobs_out |-> [buf |-> ids[2], writeable |-> TRUE],
          y |-> yh, yobs |-> yobsh,
          fresh |-> (ids[1] :> h[yh.buf]) @@ (ids[2] :> h[yobsh.buf])]

\* The buffers some array still refers to.
Collect(h, roots) == [i \in (DOMAIN h) \cap roots |-> h[i]]

\* Two buffer identities that no array in use has.  An identity is free again
\* once no array refers to its buffer.
FreshIds(used) ==
    LET free == (1..(Cardinality(used) + 2)) \ used
        a == CHOOSE i \in free : \A j \in free : i <= j
        b == CHOOSE i \in free \ {a} : \A j \in free \ {a} : i <= j
    IN  <<a, b>>

----------------------------------------------------------------------------
(* The instance and its caller as a state machine *)

NoArgs == [tspan |-> <<>>, param_values |-> [given |-> FALSE, values |-> <<>>],
           view |-> FALSE]
NoHeld == [y |-> NoneRef, yobs |-> NoneRef, view |-> FALSE, shown |-> <<>>,
           written |-> "no"]

\* The instance: its attributes and the content of its own buffers.
Instance ==
    [y |-> y, yobs |-> yobs, yobs_view |-> yobs_view, y0 |-> y0,
     sim_param_values |-> sim_param_values, integrator |-> integrator,
     buffers |-> Collect(heap, {y.buf, yobs.buf, yobs_view.buf})]

\* The arguments simulate is called with: tspan is a nondecreasing sequence of
\* at most MaxLen timepoints that starts at time 0; param_values is None, a
\* vector of the right length (all ones, or all ones but for a zero in the
\* first place), or a vector one parameter short or long.
TSpans ==
    { ts \in UNION { [1..n -> Times] : n \in 1..MaxLen } :
        ts[1] = 0 /\ \A i \in 1..(Len(ts) - 1) : ts[i] <= ts[i + 1] }
ParamArgs(m) ==
    LET P == Len(m.parameters)
    IN  {[given |-> FALSE, values |-> <<>>]}
        \cup {[given |-> TRUE, values |-> [i \in 1..P |-> IF i = j THEN 0 ELSE 1]] :
                 j \in 0..1}
        \cup {[given |-> TRUE, values |-> [i \in 1..n |-> 0]] :
                 n \in {P - 1, P + 1}}
\* What integrate() may return: all of the mass in one species.
IntegrateResults(m) ==
    { [i \in 1..m.num_species |-> IF i = j THEN 1 ELSE 0] :
        j \in 1..m.num_species }
\* The tspans of the calls whose arrays the caller may keep.
ShortTSpans == { ts \in TSpans : Len(ts) < MaxLen }

\* lines 182-193: the instance after __init__, before any call
SimStart(m) ==
    /\ model = Generated(m)
    /\ y = NoneRef
    /\ yobs = NoneRef
    /\ yobs_view = NoneRef
    /\ y0 = [i \in 1..m.num_species |-> Uninit]
    /\ sim_param_values = [i \in 1..Len(m.parameters) |-> Uninit]
    /\ integrator = [t |-> 0, success |-> TRUE]
    /\ heap = [i \in {} |-> <<>>]
    /\ pc = "idle"
    /\ args = NoArgs
    /\ t = 0
    /\ held = NoHeld
    /\ lastOutcome = "none"
    /\ steps = <<>>
    /\ allocated = FALSE
    /\ prevLen = 0
    /\ accLen = 0

\* simulate, lines 232-237: the call is rejected
SimulateRaise ==
    /\ pc = "idle"
    /\ \E ts \in TSpans, pv \in ParamArgs(model) :
         LET a == AssembleInitial(model, sim_param_values, y0, pv)
         IN  /\ a.raised
             /\ sim_param_values' = a.spv
             /\ y0' = a.y0
             /\ prevLen' = Len(ts)
    /\ lastOutcome' = "rejected"
    /\ UNCHANGED <<model, y, yobs, yobs_view, integrator, heap, callVars, held,
                   steps, allocated, accLen, runVars>>

\* simulate, lines 232-259: up to the first test of the loop condition
SimulateBegin(tspans) ==
    /\ pc = "idle"
    /\ \E ts \in tspans, pv \in ParamArgs(model), vw \in BOOLEAN :
         LET a == AssembleInitial(model, sim_param_values, y0, pv)
             alloc == NeedsAlloc(y, heap, ts)
             b == AllocBuffers(model, ts,
                               FreshIds({held.y.buf, held.yobs.buf}))
             yh == IF alloc THEN b.y ELSE y
             h1 == IF alloc THEN b.fresh @@ heap ELSE heap
         IN  /\ ~a.raised
             /\ args' = [tspan |-> ts, param_values |-> pv, view |-> vw]
             /\ sim_param_values' = a.spv
             /\ y0' = a.y0
             /\ y' = yh
             /\ yobs' = IF alloc THEN b.yobs ELSE yobs
             /\ yobs_view' = IF alloc THEN b.yobs_view ELSE yobs_view
             /\ integrator' = [t |-> ts[1], success |-> TRUE]
             /\ yh.writeable
             /\ heap' = Collect([h1 EXCEPT ![yh.buf][1] = a.y0],
                                {yh.buf, yobs'.buf, yobs_view'.buf,
                                 held.y.buf, held.yobs.buf})
             /\ allocated' = alloc
             /\ prevLen' = Len(ts)
             /\ accLen' = Len(ts)
    /\ t' = 1
    /\ steps' = <<>>
    /\ pc' = "loop"
    /\ lastOutcome' = "running"
    /\ UNCHANGED <<model, held, runVars>>

\* simulate, lines 260-262: one iteration of the loop.  integrate() returns the
\* state it reached and sets the integrator's success flag; when it succeeds
\* the integrator's time is the timepoint asked for, when it fails the model
\* leaves the integrator's time where it was.  tspan[t] needs t < len(tspan).
IntegrateStep ==
    /\ pc = "loop"
    /\ LoopCond(integrator, args.tspan)
    /\ t + 1 <= Len(args.tspan)
    /\ y.writeable
    /\ \E r \in IntegrateResults(model), ok \in BOOLEAN :
         /\ heap' = [heap EXCEPT ![y.buf][t + 1] = r]
         /\ integrator' = [t |-> IF ok THEN args.tspan[t + 1] ELSE integrator.t,
                           success |-> ok]
         /\ steps' = Append(steps, [ret |-> r, ok |-> ok])
    /\ t' = t + 1
    /\ UNCHANGED <<model, y, yobs, yobs_view, y0, sim_param_values, pc, args,
                   held, lastOutcome, allocated, prevLen, accLen, runVars>>

\* simulate, lines 263-274, and the caller keeping the result or not
SimulateReturn(keeps) ==
    /\ pc = "loop"
    /\ ~LoopCond(integrator, args.tspan)
    /\ yobs_view.writeable
    /\ \E g \in [UninitCells(heap[y.buf]) -> Values],
          keep \in keeps :
         LET ya == Materialise(heap[y.buf], g)
             yobsa == DeriveObservables(model, ya, heap[yobs_view.buf])
             h1 == [heap EXCEPT ![y.buf] = ya, ![yobs_view.buf] = yobsa]
             r == ReturnArrays(y, yobs, h1, args.view,
                               FreshIds({y.buf, yobs.buf, yobs_view.buf,
                                         held.y.buf, held.yobs.buf}))
             result == [y |-> r.y_out, yobs |-> r.yobs_out, view |-> args.view,
                        shown |-> h1[y.buf][1], written |-> "no"]
         IN  /\ y' = r.y
             /\ yobs' = r.yobs
             /\ held' = IF keep THEN result ELSE held
             /\ heap' = Collect(IF keep THEN r.fresh @@ h1 ELSE h1,
                                {y'.buf, yobs'.buf, yobs_view.buf,
                                 held'.y.buf, held'.yobs.buf})
    /\ pc' = "idle"
    /\ lastOutcome' = "returned"
    /\ args' = NoArgs
    /\ t' = 0
    /\ steps' = <<>>
    /\ allocated' = FALSE
    /\ UNCHANGED <<model, yobs_view, y0, sim_param_values, integrator, prevLen,
                   accLen, runVars>>

\* The caller assigns to the first cell of an array it kept, a value other
\* than the one the cell holds.
ExternalWrite ==
    /\ pc = "idle"
    /\ held # NoHeld
    /\ held.written = "no"
    /\ \E which \in {"y", "yobs"} :
         LET h == held[which]
         IN  /\ Len(heap[h.buf]) > 0
             /\ Len(heap[h.buf][1]) > 0
             /\ IF h.writeable
                THEN /\ heap' = [heap EXCEPT ![h.buf][1][1] = @ + 1]
                     /\ held' = [held EXCEPT !.written = "ok"]
                ELSE \* ValueError: assignment destination is read-only
                     /\ held' = [held EXCEPT !.written = "ValueError"]
                     /\ UNCHANGED heap
    /\ UNCHANGED <<model, y, yobs, yobs_view, y0, sim_param_values, integrator,
                   callVars, lastOutcome, histVars, runVars>>

RunIdle ==
    /\ rpc = "idle"
    /\ params = <<>>
    /\ odes = <<>>
    /\ code_eqs = <<>>
    /\ pidx = 0
    /\ native_eqs = <<>>
    /\ interp_eqs = <<>>

Init == RunIdle /\ \E m \in SourceModels : SimStart(m)

\* Calls of every kind, by a caller that keeps none of the arrays.
Next == SimulateRaise \/ SimulateBegin(TSpans) \/ IntegrateStep
          \/ SimulateReturn({FALSE})

Spec == Init /\ [][Next]_vars

\* Accepted calls with short tspans, by a caller that may keep the arrays of a
\* call and assign to them.
NextCaller == SimulateBegin(ShortTSpans) \/ IntegrateStep
                \/ SimulateReturn(BOOLEAN) \/ ExternalWrite

SpecCaller == Init /\ [][NextCaller]_vars

----------------------------------------------------------------------------
(* run() as a state machine *)

\* lines 141-142
BuildEqs ==
    /\ rpc = "start"
    /\ code_eqs' = BuildCodeEqs(odes)
    /\ rpc' = "joined"
    /\ UNCHANGED <<params, odes, pidx, native_eqs, interp_eqs, simVars>>

\* lines 143-144
SpeciesPass ==
    /\ rpc = "joined"
    /\ code_eqs' = SubSpecies(code_eqs)
    /\ pidx' = 1
    /\ rpc' = "params"
    /\ UNCHANGED <<params, odes, native_eqs, interp_eqs, simVars>>

\* lines 145-146, one iteration
ParamPass ==
    /\ rpc = "params"
    /\ pidx <= Len(params)
    /\ code_eqs' = SubParam(code_eqs, params[pidx], pidx - 1)
    /\ pidx' = pidx + 1
    /\ UNCHANGED <<rpc, params, odes, native_eqs, interp_eqs, simVars>>

\* lines 215-228
EmitOdeRhs ==
    /\ rpc = "params"
    /\ pidx > Len(params)
    /\ native_eqs' = NativeEqs(code_eqs)
    /\ interp_eqs' = InterpEqs(code_eqs)
    /\ rpc' = "done"
    /\ UNCHANGED <<params, odes, code_eqs, pidx, simVars>>

RECURSIVE CutAt(_, _, _)
\* flat[from..] cut after each index in cuts
CutAt(flat, cuts, from) ==
    LET next == {c \in cuts : c >= from}
    IN  IF next = {} THEN <<SubSeq(flat, from, Len(flat))>>
        ELSE LET c == CHOOSE x \in next : \A z \in next : x <= z
             IN  <<SubSeq(flat, from, c)>> \o CutAt(flat, cuts, c + 1)

\* The models run() is given: a parameter list, and ODEs that are a sequence of
\* at most MaxSymbols symbols cut into at most MaxOdes non-empty products.
InitRun ==
    /\ rpc = "start"
    /\ params \in ParamLists
    /\ \E n \in 1..MaxSymbols :
         \E flat \in [1..n -> Symbols(params)] :
           \E cuts \in SUBSET (1..(n - 1)) :
             /\ Cardinality(cuts) < MaxOdes
             /\ odes = CutAt(flat, cuts, 1)
    /\ code_eqs = <<>>
    /\ pidx = 0
    /\ native_eqs = <<>>
    /\ interp_eqs = <<>>
    /\ SimStart(CHOOSE m \in SourceModels : TRUE)

NextRun == BuildEqs \/ SpeciesPass \/ ParamPass \/ EmitOdeRhs

SpecRun == InitRun /\ [][NextRun]_vars

----------------------------------------------------------------------------
(* Properties of run() *)

\* A symbol after the species pass alone: y[N] for species N, a parameter's
\* name as it is.
SpeciesOnly(sym) ==
    IF sym.kind = "species"
    THEN <<"y", "[">> \o FmtInt(sym.idx) \o <<"]">> ELSE sym.name

\* A symbol after both passes: y[N] for species N, p[i] for the parameter at
\* position i of model.parameters, counted from 0.
ArraySlot(sym) ==
    IF sym.kind = "species"
    THEN <<"y", "[">> \o FmtInt(sym.idx) \o <<"]">>
    ELSE <<"p", "[">> \o FmtInt(sym.idx - 1) \o <<"]">>

\* The equations with every symbol printed by F and nothing else changed.
Rendered(os, F(_)) ==
    Join([i \in 1..Len(os) |->
            <<"y", "d", "o", "t", "[">> \o FmtInt(i - 1) \o <<"]", " ", "=", " ">>
              \o Join([j \in 1..Len(os[i]) |-> F(os[i][j])], <<"*">>) \o <<";">>],
         <<"\n">>)

\* C1: after the species pass (lines 143-144) every species marker s<N> has
\* become y[N] with its full index, and nothing else in the text has changed:
\* in particular no parameter name has been altered.
C1_SpeciesPassExact ==
    (rpc = "params" /\ pidx = 1) => code_eqs = Rendered(odes, SpeciesOnly)

\* The species pass is exact for the model at hand.
SpeciesPassWasExact ==
    SubSpecies(BuildCodeEqs(odes)) = Rendered(odes, SpeciesOnly)

\* C2: when the species pass has left the parameter names alone, after the
\* parameter passes (lines 145-146) every occurrence of the i-th parameter's
\* name has become p[i] and nothing else has changed: no y[N], p[j] or ydot[i]
\* written earlier has been rewritten.
C2_ParamPassExact ==
    (rpc = "done" /\ SpeciesPassWasExact) => code_eqs = Rendered(odes, ArraySlot)

\* The statements of a body: its non-blank lines without their indentation.
NonBlank(line) == ~IsBlank(line)
Statements(text) ==
    LET lines == SelectSeq(SplitLines(text), NonBlank)
    IN  [i \in 1..Len(lines) |-> LStrip(lines[i])]

----------------------------------------------------------------------------
(* Properties of simulate *)

\* The kinds of step.
RaiseStep == pc = "idle" /\ pc' = "idle" /\ lastOutcome' = "rejected"
                /\ held' = held
BeginStep == pc = "idle" /\ pc' = "loop"
LoopStep == pc = "loop" /\ pc' = "loop" /\ t' = t + 1
ReturnStep == pc = "loop" /\ pc' = "idle"
WriteStep == pc = "idle" /\ pc' = "idle" /\ held'.written # held.written

\* C4: a call whose param_values has the wrong length is rejected and leaves
\* sim_param_values, y0, self.y, self.yobs, self.yobs_view, the content of
\* their buffers and the integrator exactly as they were, whatever calls came
\* before it.
C4_RejectedCallChangesNothing ==
    [][RaiseStep => Instance' = Instance]_vars

\* A call has been rejected on an instance whose buffers an earlier call made.
C4_Witness ==
    lastOutcome = "rejected" /\ y # NoneRef /\ Len(heap[y.buf]) # prevLen

\* C5, as the spec states it: a call reallocates the buffers exactly when it
\* is the first call or its tspan length differs from that of the call before
\* it, and the buffers always have as many rows as the tspan of the latest call.
C5_ReallocIffFirstOrLengthDiffers ==
    [][/\ BeginStep =>
            (allocated' <=> (lastOutcome = "none" \/ Len(args'.tspan) # prevLen))
       /\ y' # NoneRef => Len(heap'[y'.buf]) = prevLen']_vars

\* C5, as the code has it: among the calls that are not rejected, a call
\* reallocates y, yobs and yobs_view exactly when it is the first one or its
\* tspan length differs from that of the one before it; a call that does not
\* reallocate leaves the three handles as they were; and the three buffers
\* always have as many rows as the tspan of the latest call not rejected.
C5_ReallocIffFirstAcceptedOrLengthDiffers ==
    [][/\ BeginStep =>
            /\ allocated' <=> (accLen = 0 \/ Len(args'.tspan) # accLen)
            /\ ~allocated' => (y' = y /\ yobs' = yobs /\ yobs_view' = yobs_view)
            /\ allocated' => \A r \in 2..Len(heap'[y'.buf]) :
                                \A c \in DOMAIN heap'[y'.buf][r] :
                                    heap'[y'.buf][r][c] = Uninit
       /\ (y' = NoneRef) <=> (accLen' = 0)
       /\ y' # NoneRef =>
            /\ Len(heap'[y'.buf]) = accLen'
            /\ Len(heap'[yobs'.buf]) = accLen'
            /\ Len(heap'[yobs_view'.buf]) = accLen']_vars

\* A call with the longest tspan reuses the buffers of an earlier call.
C5_Witness ==
    pc = "loop" /\ ~allocated /\ Len(args.tspan) = MaxLen

\* The parameter vector a call is to use, from its arguments and the source
\* model alone.
Effective ==
    IF args.param_values.given THEN args.param_values.values
    ELSE [i \in 1..Len(model.source.parameters) |->
             model.source.parameters[i].value]

\* The initial state a call is to use, from its arguments and the source model
\* alone: the value of its parameter for a species with an initial condition,
\* zero for any other.
ExpectedState ==
    LET ics == model.source.initial_conditions
    IN  [sp \in 1..model.source.num_species |->
            IF \E i \in DOMAIN ics : ics[i].species = sp - 1
            THEN Effective[(ics[CHOOSE i \in DOMAIN ics :
                                  ics[i].species = sp - 1]).param + 1]
            ELSE 0]

\* C8: in every call that is not rejected, whatever calls came before it, the
\* parameter vector is the override when one is given and the nominal values
\* otherwise, the state vector is zero for a species with no initial condition
\* and the value of its parameter for a species with one, and row 0 of the
\* trajectory is that state vector.
C8_InitialStateFromArgumentsOnly ==
    pc = "loop" =>
        /\ sim_param_values = Effective
        /\ y0 = ExpectedState
        /\ heap[y.buf][1] = ExpectedState

\* A call without an override runs on buffers that an earlier call made.
C8_Witness ==
    /\ pc = "loop" /\ ~allocated /\ ~args.param_values.given
    /\ Len(model.initial_conditions) = 2

\* The sum over the species js of an observable of coefficient times amount.
RECURSIVE Combination(_, _, _)
Combination(row, obs, js) ==
    IF js = {} THEN 0
    ELSE LET j == CHOOSE x \in js : TRUE
         IN  obs.coefficients[j] * row[obs.species[j] + 1]
               + Combination(row, obs, js \ {j})

\* C9: after every call that returns, whatever calls came before it and however
\* the integration ended, each column of yobs holds at every row the weighted
\* sum of its observable's species columns of y at that row.
C9_ObservablesAreWeightedSums ==
    (pc = "idle" /\ lastOutcome = "returned") =>
        /\ DOMAIN heap[yobs.buf] = DOMAIN heap[y.buf]
        /\ \A r \in DOMAIN heap[yobs.buf] :
             /\ DOMAIN heap[yobs.buf][r] = DOMAIN model.source.observables
             /\ \A i \in DOMAIN model.source.observables :
                  heap[yobs.buf][r][i] =
                      Combination(heap[y.buf][r], model.source.observables[i],
                                  DOMAIN model.source.observables[i].species)

\* A call has returned after its integrator failed, for a model with an
\* observable, leaving rows that it did not write.
C9_Witness ==
    /\ pc = "idle" /\ lastOutcome = "returned" /\ ~integrator.success
    /\ Len(model.observables) > 0
    /\ Len(heap[y.buf]) = MaxLen

\* What holds at each test of the loop condition.
LoopState ==
    LET n == Len(args.tspan)
    IN  /\ t = Len(steps) + 1
        /\ t <= n
        /\ heap[y.buf][1] = y0
        /\ \A k \in 1..Len(steps) : heap[y.buf][k + 1] = steps[k].ret
        /\ \A k \in 1..(Len(steps) - 1) : steps[k].ok
        /\ integrator.success <=> (steps = <<>> \/ steps[Len(steps)].ok)
        /\ integrator.success => integrator.t = args.tspan[t]
        /\ LoopCond(integrator, args.tspan) => t < n

\* C10, as the spec states it: when a step fails, every row past the last
\* step that succeeded is left at the value it had before the call.
C10_FailedStepLeavesItsRow ==
    [][(LoopStep /\ ~allocated /\ ~integrator'.success)
          => heap'[y.buf][t + 1] = heap[y.buf][t + 1]]_vars

\* C10, as the code has it: row 0 is the initial state; the loop runs while
\* the integrator reports success and its time is before tspan[-1]; the k-th
\* step is for tspan[k], writes what integrate returned to row k and to no other
\* row, whether the step succeeded or failed, and k never exceeds n-1; no step
\* follows a failed one; the rows past the row of the last step, failed or
\* not, are left as they were when the loop was entered, and returning changes
\* no row that was ever written.
C10_LoopWritesOneRowPerStep ==
    [][/\ pc' = "loop" => LoopState'
       /\ LoopStep =>
            /\ LoopCond(integrator, args.tspan)
            /\ \A r \in DOMAIN heap[y.buf] :
                 r # t + 1 => heap'[y.buf][r] = heap[y.buf][r]
       /\ ReturnStep =>
            /\ ~LoopCond(integrator, args.tspan)
            /\ \A r \in DOMAIN heap[y.buf] : \A c \in DOMAIN heap[y.buf][r] :
                 heap[y.buf][r][c] # Uninit =>
                     heap'[y.buf][r][c] = heap[y.buf][r][c]]_vars

\* A step has failed before the final timepoint, in a call that reuses the
\* buffers of an earlier call, with rows left that no step of it wrote.
C10_Witness ==
    /\ pc = "loop" /\ ~allocated /\ ~integrator.success
    /\ Len(steps) = 1 /\ Len(args.tspan) = MaxLen

\* What holds of the arrays the caller keeps.
HeldArrays ==
    /\ y # NoneRef => (y.writeable /\ yobs.writeable /\ yobs_view.writeable)
    /\ (held # NoHeld /\ held.view) =>
          /\ ~held.y.writeable /\ ~held.yobs.writeable
          /\ held.written # "ok"
    /\ (held # NoHeld /\ ~held.view) =>
          /\ held.y.writeable /\ held.yobs.writeable
          /\ held.written # "ValueError"
          /\ {held.y.buf, held.yobs.buf} \cap {y.buf, yobs.buf, yobs_view.buf} = {}
          /\ held.y.buf # held.yobs.buf

C7_ViewTrueReturnsCopies ==
    (held # NoHeld /\ held.view) =>
        /\ held.y.writeable /\ held.yobs.writeable
        /\ held.y.buf # y.buf /\ held.yobs.buf # yobs.buf

====
